---------------------------- MODULE Spec2Model ----------------------------
(* Model of the Orca / OrcaPod e-mail threat search and remediation       *)
(* engine (src/libs/orca.py).  One session object is modelled: its         *)
(* mailbox list, the run of one of its methods (one action per loop        *)
(* iteration), the requests the run issues, and the answers of the remote  *)
(* service, which are inputs chosen nondeterministically.                  *)
EXTENDS Integers, Sequences, FiniteSets, TLC

(* ---------------------------- bounds ---------------------------------- *)
MaxMailboxes == 22   \* longest mailbox list
MaxMatches == 22     \* longest hand-made match list given to remediation
MaxUrls == 2         \* longest url_list of bulk_find_phish
HitBoxes == 2        \* mailboxes 1..HitBoxes may hold matching messages
MaxHits == 2         \* most matches one search response carries

(* ----------------------- program constants ---------------------------- *)
Threshold == 20      \* "if search_counter == 20"
Cooldown == 60       \* "sleep(60)"
Created == 201       \* "response.status_code != 201"

Fields == {"url", "file_hash", "sender", "subject", "file_ext"}

VARIABLES
  has_mailboxes,  \* does the session object have a mailbox list attribute
  mailboxes,      \* self.mailboxes / self._mailboxes
  op,             \* the method that is running or has last run
  pc,             \* "new", "loop", "done" (returned), "raised" (exception)
  exc,            \* the exception that ended the run, or "none"; "KeyError"
                  \* stands for any failure to read the body's "value"
  phish_,         \* keyword arguments of find_phish
  url_list,       \* argument of bulk_find_phish
  evil_list,      \* evil_list / phishes / phish_list of the running method
  uidx,           \* urls of url_list already completed (bulk_find_phish)
  idx,            \* items of the (inner) loop already completed
  counter,        \* search_counter / api_counter / eat_counter (a local)
  requests,       \* remote requests issued by the current run, in order
  sessSince,      \* requests of the session since the last sleep(60)
  lastStatus,     \* HTTP status of the last response, 0 before any
  okMatches,      \* matches carried by the 200 responses of find_phish
  nAccepted,      \* responses with status 201 in the run
  n_info,         \* log.info lines of the remediation loop
  n_exc,          \* log.exception lines of the remediation loop
  ret,            \* the value the method returned, see ReturnValue
  entries,        \* the response entries find_phish has read, in order
  source,         \* where evil_list came from: "none", "hand", "search"
  cli,            \* position of cli_client.py, "none" when it is not run
  answer,         \* what the operator typed at the prompt, "none" before
  pauses          \* sleep(60) calls of the current run

vars == <<has_mailboxes, mailboxes, op, pc, exc, phish_, url_list, evil_list,
          uidx, idx, counter, requests, sessSince, lastStatus, okMatches,
          nAccepted, n_info, n_exc, ret, entries, source, cli, answer,
          pauses>>

(* ------------------------- pure helpers ------------------------------- *)

\* The value a caller passes for keyword k (opaque).
ArgValue(k) == <<k>>

\* **phish_ with exactly the keywords S.
Kwargs(S) == [k \in S |-> ArgValue(k)]

\* The j-th match entry the service holds for mailbox m.
ValueEntry(m, j) ==
  [mailbox |-> m,
   mail_message_id |-> <<m, j>>,
   mail_unique_id |-> <<j, m>>,
   mail_message_delivery_time |-> <<2026, m, j>>]

\* An entry whose message id is the empty string.
BlankEntry(m) ==
  [mailbox |-> m,
   mail_message_id |-> <<>>,
   mail_unique_id |-> <<>>,
   mail_message_delivery_time |-> <<>>]

\* A "value" array of k entries for mailbox m.
ValueArray(m, k) == [j \in 1..k |-> ValueEntry(m, j)]

\* How many matching messages mailbox m holds when it holds any: mailbox 1
\* holds MaxHits, mailbox 2 one less, ...; mailboxes after HitBoxes none.
HitsOf(m) == IF m <= HitBoxes THEN MaxHits - ((m - 1) % MaxHits) ELSE 0

\* A hand-made match record, as find_phish would have produced it.
MkEvil(j) ==
  [mailbox |-> ((j - 1) % 3) + 1,
   mui |-> <<j, 0>>,
   mmi |-> <<0, j>>,
   d_time |-> <<2026, j>>]

MkEvilList(n) == [j \in 1..n |-> MkEvil(j)]

\* The keys a remediation loop reads from each record.
RecordKeys == {"mailbox", "mmi", "mui", "d_time"}

\* The shapes of a hand-made list: every record complete, or the last one
\* with an empty delivery time, or the last one without the d_time key.
ListKinds == {"good", "blank", "short"}

\* A hand-made list of n records of the given shape.
MkHandList(n, kind) ==
  [j \in 1..n |->
     IF j = n /\ kind = "blank" THEN [MkEvil(j) EXCEPT !.d_time = <<>>]
     ELSE IF j = n /\ kind = "short"
       THEN [mailbox |-> MkEvil(j).mailbox, mui |-> MkEvil(j).mui,
             mmi |-> MkEvil(j).mmi]
     ELSE MkEvilList(n)[j]]

\* Variant: the pause comes one call too late.
RateLimitedLate(c) == c = Threshold + 1

\* Variant: the pause comes one call too early, on the 20th call.
RateLimitedEarly(c) == c = Threshold - 1

\* "if search_counter == 20"
RateLimited(c) == c = Threshold

\* Marker for "no branch assigned params".
Unbound == [unbound |-> TRUE]

IsUnbound(p) == "unbound" \in DOMAIN p

\* Variant: the file hash search looks seven days back.
find_params_week(p, mailbox) ==
  IF "url" \in DOMAIN p
    THEN [mailbox |-> mailbox, lastndays |-> 1, url |-> p["url"]]
  ELSE IF "file_hash" \in DOMAIN p
    THEN [file_sha1 |-> p["file_hash"], mailbox |-> mailbox, lastndays |-> 7]
  ELSE IF "subject" \in DOMAIN p /\ "sender" \in DOMAIN p
    THEN [mailbox |-> mailbox, lastndays |-> 1, sender |-> p["sender"],
          subject |-> p["subject"], limit |-> 1000]
  ELSE IF "file_ext" \in DOMAIN p /\ "sender" \in DOMAIN p
    THEN [mailbox |-> mailbox, lastndays |-> 1, sender |-> p["sender"],
          file_extension |-> p["file_ext"], limit |-> 1000]
  ELSE IF "file_ext" \in DOMAIN p /\ "subject" \in DOMAIN p
          /\ "sender" \in DOMAIN p
    THEN [mailbox |-> mailbox, lastndays |-> 1, sender |-> p["sender"],
          subject |-> p["subject"], file_extension |-> p["file_ext"],
          limit |-> 1000]
  ELSE IF "sender" \in DOMAIN p
    THEN [mailbox |-> mailbox, lastndays |-> 1, sender |-> p["sender"],
          limit |-> 1000]
  ELSE Unbound

\* The if/elif chain of find_phish that builds params.
find_params(p, mailbox) ==
  IF "url" \in DOMAIN p
    THEN [mailbox |-> mailbox, lastndays |-> 1, url |-> p["url"]]
  ELSE IF "file_hash" \in DOMAIN p
    THEN [file_sha1 |-> p["file_hash"], mailbox |-> mailbox, lastndays |-> 1]
  ELSE IF "subject" \in DOMAIN p /\ "sender" \in DOMAIN p
    THEN [mailbox |-> mailbox, lastndays |-> 1, sender |-> p["sender"],
          subject |-> p["subject"], limit |-> 1000]
  ELSE IF "file_ext" \in DOMAIN p /\ "sender" \in DOMAIN p
    THEN [mailbox |-> mailbox, lastndays |-> 1, sender |-> p["sender"],
          file_extension |-> p["file_ext"], limit |-> 1000]
  ELSE IF "file_ext" \in DOMAIN p /\ "subject" \in DOMAIN p
          /\ "sender" \in DOMAIN p
    THEN [mailbox |-> mailbox, lastndays |-> 1, sender |-> p["sender"],
          subject |-> p["subject"], file_extension |-> p["file_ext"],
          limit |-> 1000]
  ELSE IF "sender" \in DOMAIN p
    THEN [mailbox |-> mailbox, lastndays |-> 1, sender |-> p["sender"],
          limit |-> 1000]
  ELSE Unbound

\* Variant: the record is labelled with the neighbour of its mailbox.
evil_record_mislabelled(evil_data) ==
  [mailbox |-> evil_data.mailbox + 1,
   mui |-> evil_data.mail_unique_id,
   mmi |-> evil_data.mail_message_id,
   d_time |-> evil_data.mail_message_delivery_time]

\* Variant: the delivery time is cut to its leading components.
evil_record_truncated(evil_data) ==
  [mailbox |-> evil_data.mailbox,
   mui |-> evil_data.mail_unique_id,
   mmi |-> evil_data.mail_message_id,
   d_time |-> SubSeq(evil_data.mail_message_delivery_time, 1, 2)]

\* evil_list.append({...}) of find_phish for one response entry.
evil_record(evil_data) ==
  [mailbox |-> evil_data.mailbox,
   mui |-> evil_data.mail_unique_id,
   mmi |-> evil_data.mail_message_id,
   d_time |-> evil_data.mail_message_delivery_time]

\* Variant: the entries of a response are taken last to first.
evil_records_reversed(value) ==
  [j \in 1..Len(value) |-> evil_record(value[Len(value) + 1 - j])]

\* "for evil_data in data: evil_list.append(...)" of find_phish.
evil_records(value) == [j \in 1..Len(value) |-> evil_record(value[j])]

\* phishes.append({...}) of bulk_find_phish.
phish_record(mailbox, phish_data) ==
  [mailbox |-> mailbox,
   mmi |-> phish_data.mail_message_id,
   mui |-> phish_data.mail_unique_id,
   d_time |-> phish_data.mail_message_delivery_time]

\* Variant: every record is tagged for deletion.
json_body_delete(action_type, evil) ==
  [action_type |-> "MAIL_DELETE",
   service |-> "exchange",
   account_provider |-> "office365",
   mailbox |-> evil.mailbox,
   mail_message_id |-> evil.mmi,
   mail_unique_id |-> evil.mui,
   mail_message_delivery_time |-> evil.d_time]

\* json_body / params of the three remediation loops.
json_body(action_type, evil) ==
  [action_type |-> action_type,
   service |-> "exchange",
   account_provider |-> "office365",
   mailbox |-> evil.mailbox,
   mail_message_id |-> evil.mmi,
   mail_unique_id |-> evil.mui,
   mail_message_delivery_time |-> evil.d_time]

\* Variant: the check is made against 200 OK.
RejectedNot200(status) == status # 200

\* "if response.status_code != 201: raise HTTPError"
Rejected(status) == status # Created

\* The value a method hands back: kind "unset" while it runs, "list" for
\* the list a search returns (its content is evil_list), "None" for a
\* method without a return statement.
ReturnValue(kind) == [kind |-> kind]


(* ----------------------- the remote service --------------------------- *)

\* Answers the service may give to a search of mailbox m in find_phish.
\* has_value: the body is JSON and has a "value" key.
SearchResponses(m) ==
  {[status |-> 200, has_value |-> TRUE, value |-> ValueArray(m, k)] :
      k \in {0, HitsOf(m)}}
  \cup {[status |-> 500, has_value |-> FALSE, value |-> <<>>],
        [status |-> 500, has_value |-> TRUE, value |-> <<>>]}

\* Answers the service may give to a search of mailbox m in bulk_find_phish.
BulkResponses(m) ==
  {[status |-> 200, has_value |-> TRUE, value |-> ValueArray(m, k)] :
      k \in {0, HitsOf(m)}}
  \cup {[status |-> 200, has_value |-> TRUE, value |-> <<BlankEntry(m)>>],
        [status |-> 500, has_value |-> FALSE, value |-> <<>>],
        [status |-> 500, has_value |-> TRUE, value |-> <<>>]}

\* Status codes the service may answer to a remediation request.
MitigationStatuses == {Created, 400}

(* ------------------------------ Init ---------------------------------- *)

Init ==
  /\ has_mailboxes = FALSE
  /\ mailboxes = <<>>
  /\ op = "none"
  /\ pc = "new"
  /\ exc = "none"
  /\ phish_ = Kwargs({})
  /\ url_list = <<>>
  /\ evil_list = <<>>
  /\ uidx = 0
  /\ idx = 0
  /\ counter = 0
  /\ requests = <<>>
  /\ sessSince = 0
  /\ lastStatus = 0
  /\ okMatches = <<>>
  /\ nAccepted = 0
  /\ n_info = 0
  /\ n_exc = 0
  /\ ret = ReturnValue("unset")
  /\ entries = <<>>
  /\ source = "none"
  /\ cli = "none"
  /\ answer = "none"
  /\ pauses = 0

\* The caller gives the session object its list of mailboxes: __init__
\* documents the attribute but its assignment is commented out, so a
\* session that was never given one has no such attribute.
SetMailboxes ==
  /\ pc = "new" /\ cli = "none"
  /\ ~has_mailboxes
  /\ \E n \in 0..MaxMailboxes : mailboxes' = [j \in 1..n |-> j]
  /\ has_mailboxes' = TRUE
  /\ UNCHANGED <<op, pc, exc, phish_, url_list, evil_list, uidx, idx, counter,
                 requests, sessSince, lastStatus, okMatches, nAccepted,
                 n_info, n_exc, ret, entries, source, cli, answer, pauses>>

\* What every method call sets: its arguments, its locals and the
\* observers of the run.
StartRun(name, list, from, kwargs, urls) ==
  /\ op' = name
  /\ source' = from
  /\ entries' = IF from = "search" THEN entries ELSE <<>>
  /\ phish_' = kwargs
  /\ url_list' = urls
  /\ evil_list' = list
  /\ uidx' = 0
  /\ idx' = 0
  /\ counter' = 0
  /\ requests' = <<>>
  /\ lastStatus' = 0
  /\ okMatches' = <<>>
  /\ nAccepted' = 0
  /\ n_info' = 0
  /\ n_exc' = 0
  /\ ret' = ReturnValue("unset")
  /\ pauses' = 0

\* The rate-limit test at the head of every loop: "if counter == 20:
\* sleep(60)", counted per run.
sleep_head == pauses' = IF RateLimited(counter) THEN pauses + 1 ELSE pauses

\* The sleep(60) of a loop head: the session's count since the last sleep.
SinceAfterHead(slept) == IF slept THEN 0 ELSE sessSince

\* Variant: a rest of 30 follows every tenth request of the run.
sleep_after_batches(slept, sent) ==
  (IF slept THEN Cooldown ELSE 0)
    + (IF sent > 0 /\ sent % 10 = 0 THEN 30 ELSE 0)

\* The time a loop sleeps between the request before (the sent-th of the
\* run) and the next one: sleep(60) at the loop head, nothing else.
sleep_before(slept, sent) == IF slept THEN Cooldown ELSE 0

\* The request record of one loop iteration.
Req(method, carrier, payload, c0, slept) ==
  [method |-> method, carrier |-> carrier, payload |-> payload,
   count |-> c0, slept |-> slept,
   sleep |-> sleep_before(slept, Len(requests))]

(* --------------------------- Orca.find_phish -------------------------- *)

find_phish_call ==
  /\ pc = "new" /\ cli = "none"
  /\ \E S \in SUBSET Fields :
       StartRun("find_phish", <<>>, "none", Kwargs(S), <<>>)
  /\ IF has_mailboxes
       THEN pc' = "loop" /\ exc' = "none"
       ELSE pc' = "raised" /\ exc' = "AttributeError"
  /\ UNCHANGED <<has_mailboxes, mailboxes, sessSince, cli, answer>>

find_phish_iter ==
  /\ op = "find_phish" /\ pc = "loop" /\ idx < Len(mailboxes)
  /\ LET mailbox == mailboxes[idx + 1]
         slept == RateLimited(counter)
         c0 == IF slept THEN 0 ELSE counter
         params == find_params(phish_, mailbox)
     IN IF IsUnbound(params)
          THEN /\ pc' = "raised" /\ exc' = "UnboundLocalError"
               /\ counter' = c0
               /\ sessSince' = SinceAfterHead(slept)
               /\ UNCHANGED <<requests, lastStatus, evil_list, okMatches,
                              entries, idx>>
          ELSE \E resp \in SearchResponses(mailbox) :
               /\ requests' = Append(requests,
                                Req("GET", "params", params, c0, slept))
               /\ sessSince' = SinceAfterHead(slept) + 1
               /\ lastStatus' = resp.status
               \* response.raise_for_status is not called: the status is
               \* never looked at, the body is parsed whatever it is.
               /\ IF resp.has_value
                    THEN /\ evil_list' = evil_list \o evil_records(resp.value)
                         /\ entries' = entries \o resp.value
                         /\ okMatches' = IF resp.status = 200
                              THEN okMatches \o evil_records(resp.value)
                              ELSE okMatches
                         /\ counter' = c0 + 1
                         /\ idx' = idx + 1
                         /\ UNCHANGED <<pc, exc>>
                    ELSE /\ pc' = "raised" /\ exc' = "KeyError"
                         /\ counter' = c0
                         /\ UNCHANGED <<evil_list, okMatches, entries, idx>>
  /\ UNCHANGED <<has_mailboxes, mailboxes, op, phish_, url_list, uidx,
                 nAccepted, n_info, n_exc, ret, source, cli, answer>>
  /\ sleep_head

\* Variant: an empty result is reported as an error.
find_phish_return_or_raise ==
  /\ op = "find_phish" /\ pc = "loop" /\ idx = Len(mailboxes)
  /\ IF evil_list = <<>>
       THEN pc' = "raised" /\ exc' = "LookupError" /\ ret' = ret
       ELSE pc' = "done" /\ exc' = exc /\ ret' = ReturnValue("list")
  /\ UNCHANGED <<has_mailboxes, mailboxes, op, phish_, url_list,
                 evil_list, uidx, idx, counter, requests, sessSince,
                 lastStatus, okMatches, nAccepted, n_info, n_exc,
                 entries, source, cli, answer, pauses>>

\* "return evil_list" after the loop.
find_phish_return ==
  /\ op = "find_phish" /\ pc = "loop" /\ idx = Len(mailboxes)
  /\ pc' = "done"
  /\ ret' = ReturnValue("list")
  /\ UNCHANGED <<has_mailboxes, mailboxes, op, exc, phish_, url_list,
                 evil_list, uidx, idx, counter, requests, sessSince,
                 lastStatus, okMatches, nAccepted, n_info, n_exc,
                 entries, source, cli, answer, pauses>>


(* ----------------------- OrcaPod.bulk_find_phish ---------------------- *)

bulk_find_phish_call ==
  /\ pc = "new" /\ cli = "none"
  /\ \E u \in 0..MaxUrls :
       StartRun("bulk_find_phish", <<>>, "none", Kwargs({}),
                [j \in 1..u |-> <<"url", j>>])
  /\ IF has_mailboxes \/ url_list' = <<>>
       THEN pc' = "loop" /\ exc' = "none"
       ELSE pc' = "raised" /\ exc' = "AttributeError"
  /\ UNCHANGED <<has_mailboxes, mailboxes, sessSince, cli, answer>>

\* Variant: the count starts again with every url.
search_counter_per_url(c0, last) == IF last THEN 0 ELSE c0 + 1

\* "search_counter += 1" at the end of the inner loop body; the counter is
\* set to 0 once, before the outer loop, and the loops never reset it
\* except after sleep(60).
search_counter_next(c0, last) == c0 + 1

bulk_find_phish_iter ==
  /\ op = "bulk_find_phish" /\ pc = "loop"
  /\ uidx < Len(url_list) /\ idx < Len(mailboxes)
  /\ LET url == url_list[uidx + 1]
         mailbox == mailboxes[idx + 1]
         slept == RateLimited(counter)
         c0 == IF slept THEN 0 ELSE counter
         params == [mailbox |-> mailbox, lastndays |-> 1, url |-> url]
         last == idx + 1 = Len(mailboxes)
     IN \E resp \in BulkResponses(mailbox) :
        /\ requests' = Append(requests,
                         Req("GET", "params", params, c0, slept))
        /\ sessSince' = SinceAfterHead(slept) + 1
        /\ lastStatus' = resp.status
        \* response.raise_for_status is not called here either.
        /\ IF ~resp.has_value
             THEN /\ pc' = "raised" /\ exc' = "KeyError"
                  /\ counter' = c0
                  /\ UNCHANGED <<evil_list, idx, uidx>>
           ELSE IF resp.value = <<>>
             THEN /\ pc' = "raised" /\ exc' = "IndexError"
                  /\ counter' = c0
                  /\ UNCHANGED <<evil_list, idx, uidx>>
           ELSE /\ evil_list' =
                     IF Len(resp.value[1].mail_message_id) > 0
                       THEN Append(evil_list,
                                   phish_record(mailbox, resp.value[1]))
                       ELSE evil_list
                /\ counter' = search_counter_next(c0, last)
                /\ idx' = IF last THEN 0 ELSE idx + 1
                /\ uidx' = IF last THEN uidx + 1 ELSE uidx
                /\ UNCHANGED <<pc, exc>>
  /\ UNCHANGED <<has_mailboxes, mailboxes, op, phish_, url_list, okMatches,
                 nAccepted, n_info, n_exc, ret, entries, source, cli, answer>>
  /\ sleep_head

bulk_find_phish_return ==
  /\ op = "bulk_find_phish" /\ pc = "loop"
  /\ (uidx = Len(url_list) \/ Len(mailboxes) = 0)
  /\ pc' = "done"
  /\ ret' = ReturnValue("list")
  /\ UNCHANGED <<has_mailboxes, mailboxes, op, exc, phish_, url_list,
                 evil_list, uidx, idx, counter, requests, sessSince,
                 lastStatus, okMatches, nAccepted, n_info, n_exc,
                 entries, source, cli, answer, pauses>>

(* ------- Orca.pull_email, Orca.purge_email, OrcaPod.bulk_eat_phish ---- *)

\* A remediation method is called with a hand-made list on a fresh
\* session, or with the list the search of this session returned.
mitigation_call(name, search) ==
  /\ cli = "none"
  /\ \/ /\ pc = "new" /\ ~has_mailboxes
        /\ \E n \in 0..MaxMatches, kind \in ListKinds :
             StartRun(name, MkHandList(n, kind), "hand", Kwargs({}), <<>>)
     \/ /\ pc = "done" /\ op = search
        /\ StartRun(name, evil_list, "search", Kwargs({}), <<>>)
  /\ pc' = "loop"
  /\ exc' = "none"
  /\ UNCHANGED <<has_mailboxes, mailboxes, sessSince, cli, answer>>

\* Variant: the HTTPError is not caught and ends the run.
except_HTTPError_raise(c0) ==
  /\ pc' = "raised"
  /\ exc' = "HTTPError"
  /\ counter' = c0
  /\ UNCHANGED <<n_info, n_exc, idx>>

\* Variant: a rejection leaves no trace in the log.
except_HTTPError_silent(c0) ==
  /\ n_exc' = n_exc
  /\ counter' = c0 + 1
  /\ idx' = idx + 1
  /\ UNCHANGED <<n_info, pc, exc>>

\* Variant: a rejected record is submitted again.
except_HTTPError_retry(c0) ==
  /\ n_exc' = n_exc + 1
  /\ counter' = c0 + 1
  /\ idx' = idx
  /\ UNCHANGED <<n_info, pc, exc>>

\* The "except HTTPError" block of a remediation loop: log, count the
\* call, continue with the next item.
except_HTTPError(c0) ==
  /\ n_exc' = n_exc + 1
  /\ counter' = c0 + 1
  /\ idx' = idx + 1
  /\ UNCHANGED <<n_info, pc, exc>>

\* Variant: two records go into one request when two are left.
mitigation_iter_pairs(name, action_type, carrier) ==
  /\ op = name /\ pc = "loop" /\ idx < Len(evil_list)
  /\ \A j \in 1..Len(evil_list) : RecordKeys \subseteq DOMAIN evil_list[j]
  /\ LET size == IF idx + 2 <= Len(evil_list) THEN 2 ELSE 1
         slept == RateLimited(counter)
         c0 == IF slept THEN 0 ELSE counter
         payload == [j \in 1..size |->
                       json_body(action_type, evil_list[idx + j])]
     IN \E status \in MitigationStatuses :
        /\ requests' = Append(requests,
                         Req("POST", carrier, payload, c0, slept))
        /\ sessSince' = SinceAfterHead(slept) + 1
        /\ lastStatus' = status
        /\ nAccepted' = IF status = Created THEN nAccepted + 1 ELSE nAccepted
        /\ n_exc' = IF Rejected(status) THEN n_exc + 1 ELSE n_exc
        /\ n_info' = IF Rejected(status) THEN n_info ELSE n_info + 1
        /\ counter' = c0 + 1
        /\ idx' = idx + size
  /\ UNCHANGED <<has_mailboxes, mailboxes, op, pc, exc, phish_, url_list,
                 evil_list, uidx, okMatches, ret, entries, source, cli,
                 answer>>
  /\ sleep_head

\* Variant: the list is walked from its end.
next_item_reversed(list, i) == list[Len(list) - i]

\* The item a "for ... in list" loop takes after i iterations.
next_item(list, i) == list[i + 1]

\* Variant: the loop blanks the unique id of the record it has submitted.
after_submit_marked(list, i) ==
  [list EXCEPT ![i + 1] = [@ EXCEPT !.mui = <<>>]]

\* The list after the loop body has run for its record i + 1: the body
\* only reads evil[...] into a new dict, the list is what it was.
after_submit(list, i) == list

\* One iteration of "for evil in evil_list" of a remediation method.
mitigation_iter(name, action_type, carrier) ==
  /\ op = name /\ pc = "loop" /\ idx < Len(evil_list)
  /\ LET evil == next_item(evil_list, idx)
         slept == RateLimited(counter)
         c0 == IF slept THEN 0 ELSE counter
         body == json_body(action_type, evil)
         payload == IF carrier = "json" THEN <<body>> ELSE body
     IN IF ~(RecordKeys \subseteq DOMAIN evil)
          \* evil['d_time'] of a record without the key: KeyError, which
          \* nothing catches.
          THEN /\ pc' = "raised" /\ exc' = "KeyError"
               /\ counter' = c0
               /\ sessSince' = SinceAfterHead(slept)
               /\ UNCHANGED <<requests, lastStatus, nAccepted, n_info,
                              n_exc, idx, evil_list>>
          ELSE \E status \in MitigationStatuses :
        /\ requests' = Append(requests,
                         Req("POST", carrier, payload, c0, slept))
        /\ evil_list' = after_submit(evil_list, idx)
        /\ sessSince' = SinceAfterHead(slept) + 1
        /\ lastStatus' = status
        /\ nAccepted' = IF status = Created THEN nAccepted + 1 ELSE nAccepted
        /\ IF Rejected(status)
             THEN except_HTTPError(c0)
             ELSE /\ n_info' = n_info + 1
                  /\ counter' = c0 + 1
                  /\ idx' = idx + 1
                  /\ UNCHANGED <<n_exc, pc, exc>>
  /\ UNCHANGED <<has_mailboxes, mailboxes, op, phish_, url_list,
                 uidx, okMatches, ret, entries, source, cli, answer>>
  /\ sleep_head

\* Variant: the method hands back a list.
mitigation_return_list(name) ==
  /\ op = name /\ pc = "loop" /\ idx = Len(evil_list)
  /\ pc' = "done"
  /\ ret' = ReturnValue("list")
  /\ UNCHANGED <<has_mailboxes, mailboxes, op, exc, phish_, url_list,
                 evil_list, uidx, idx, counter, requests, sessSince,
                 lastStatus, okMatches, nAccepted, n_info, n_exc,
                 entries, source, cli, answer, pauses>>

\* The method falls off its end: it returns None.
mitigation_return(name) ==
  /\ op = name /\ pc = "loop" /\ idx = Len(evil_list)
  /\ pc' = "done"
  /\ ret' = ReturnValue("None")
  /\ UNCHANGED <<has_mailboxes, mailboxes, op, exc, phish_, url_list,
                 evil_list, uidx, idx, counter, requests, sessSince,
                 lastStatus, okMatches, nAccepted, n_info, n_exc,
                 entries, source, cli, answer, pauses>>

pull_email_call == mitigation_call("pull_email", "find_phish")

pull_email_iter == mitigation_iter("pull_email", "MAIL_QUARANTINE", "json")

pull_email_return == mitigation_return("pull_email")

purge_email_call == mitigation_call("purge_email", "find_phish")

purge_email_iter == mitigation_iter("purge_email", "MAIL_DELETE", "json")

purge_email_return == mitigation_return("purge_email")

bulk_eat_phish_call == mitigation_call("bulk_eat_phish", "bulk_find_phish")

bulk_eat_phish_iter ==
  mitigation_iter("bulk_eat_phish", "MAIL_DELETE", "params")

bulk_eat_phish_return == mitigation_return("bulk_eat_phish")

(* ---------------------------- cli_client.py --------------------------- *)

\* The optional arguments of the client that select a search.
CliArgs == {"url", "hash", "sender", "subject", "file_extension"}

\* Variant: the parser accepts purge as well.
CliActionsWithPurge == {"pull", "purge"}

\* choices=['pull'] of the positional argument "action".
CliActions == {"pull"}

\* What the operator may type at "Press Y/y to continue> ".
Answers == {"y", "Y", "n", ""}

\* What the validate.X(...) calls of a branch come to: "AttributeError" is
\* what ValidateInput of src/libs/coreutils.py gives, whose methods are
\* email, sha1, file_ext and subject while the client calls URL, SHA1,
\* Email and FileExt; True and False are the answers of a ValidateInput
\* with the method names its docstring lists.
ValidateOutcomes == {"AttributeError", "False", "True"}

\* The if/elif chain of the client: the keywords it passes to find_phish
\* for the arguments A, or "none" when no branch is taken.
cli_branch(A) ==
  IF "url" \in A THEN {"url"}
  ELSE IF "hash" \in A THEN {"file_hash"}
  ELSE IF {"sender", "subject", "file_extension"} \subseteq A
    THEN {"sender", "subject", "file_ext"}
  ELSE IF {"sender", "subject"} \subseteq A THEN {"sender", "subject"}
  ELSE IF {"sender", "file_extension"} \subseteq A THEN {"sender", "file_ext"}
  ELSE IF "sender" \in A THEN {"sender"}
  ELSE {}

str_lower(w) == IF w = "Y" THEN "y" ELSE w

\* Variant: everything but "n" counts as consent.
ConfirmedUnlessNo(warning) == str_lower(warning) # "n"

\* "if warning.lower() == 'y'"
Confirmed(warning) == str_lower(warning) = "y"

\* The client up to its call of find_phish: Orca(), the branch, the input
\* validation of the branch and the call.
cli_search ==
  /\ pc = "new" /\ cli = "none" /\ op = "none"
  /\ \E A \in SUBSET CliArgs, v \in ValidateOutcomes :
       IF cli_branch(A) = {}
         THEN /\ cli' = "ended"
              /\ UNCHANGED <<op, pc, exc, phish_, url_list, evil_list, uidx,
                             idx, counter, requests, lastStatus, okMatches,
                             nAccepted, n_info, n_exc, ret, entries, source,
                             pauses>>
       ELSE IF v # "True"
         THEN /\ cli' = IF v = "False" THEN "exit1" ELSE "crashed"
              /\ UNCHANGED <<op, pc, exc, phish_, url_list, evil_list, uidx,
                             idx, counter, requests, lastStatus, okMatches,
                             nAccepted, n_info, n_exc, ret, entries, source,
                             pauses>>
       ELSE /\ cli' = "search"
            /\ StartRun("find_phish", <<>>, "none", Kwargs(cli_branch(A)),
                        <<>>)
            /\ IF has_mailboxes
                 THEN pc' = "loop" /\ exc' = "none"
                 ELSE pc' = "raised" /\ exc' = "AttributeError"
  /\ UNCHANGED <<has_mailboxes, mailboxes, sessSince, answer>>

\* The client after find_phish has returned: the warning, the prompt and,
\* on consent, the call of the remediation method of the action.
cli_confirm ==
  /\ cli = "search" /\ op = "find_phish" /\ pc = "done"
  /\ \E warning \in Answers, action \in CliActions :
       /\ answer' = warning
       /\ IF ~Confirmed(warning)
            THEN /\ cli' = "aborted"
                 /\ UNCHANGED <<op, pc, exc, phish_, url_list, evil_list,
                                uidx, idx, counter, requests, lastStatus,
                                okMatches, nAccepted, n_info, n_exc, ret,
                                entries, source, pauses>>
          ELSE IF action = "pull"
            THEN /\ cli' = "remediate"
                 /\ StartRun("pull_email", evil_list, "search", Kwargs({}),
                             <<>>)
                 /\ pc' = "loop" /\ exc' = "none"
          ELSE IF action = "purge" /\ DOMAIN phish_ = {"sender", "subject"}
            THEN /\ cli' = "remediate"
                 /\ StartRun("purge_email", evil_list, "search", Kwargs({}),
                             <<>>)
                 /\ pc' = "loop" /\ exc' = "none"
          ELSE /\ cli' = "ended"
               /\ UNCHANGED <<op, pc, exc, phish_, url_list, evil_list,
                              uidx, idx, counter, requests, lastStatus,
                              okMatches, nAccepted, n_info, n_exc, ret,
                              entries, source, pauses>>
  /\ UNCHANGED <<has_mailboxes, mailboxes, sessSince>>

(* --------------------------- specification ---------------------------- *)

Next ==
  \/ SetMailboxes
  \/ find_phish_call
  \/ find_phish_iter
  \/ find_phish_return
  \/ bulk_find_phish_call
  \/ bulk_find_phish_iter
  \/ bulk_find_phish_return
  \/ pull_email_call
  \/ pull_email_iter
  \/ pull_email_return
  \/ purge_email_call
  \/ purge_email_iter
  \/ purge_email_return
  \/ bulk_eat_phish_call
  \/ bulk_eat_phish_iter
  \/ bulk_eat_phish_return
  \/ cli_search
  \/ cli_confirm

Spec == Init /\ [][Next]_vars

TypeOK ==
  /\ pc \in {"new", "loop", "done", "raised"}
  /\ counter \in 0..Threshold
  /\ idx \in 0..(MaxMailboxes + MaxMatches)


(* ------------------------------ claims -------------------------------- *)

Mitigations == {"pull_email", "purge_email", "bulk_eat_phish"}

OrcaMitigations == {"pull_email", "purge_email"}

\* Index of the last request of the run that a sleep(60) preceded, or 0.
LastSlept ==
  LET S == {k \in 1..Len(requests) : requests[k].slept}
  IN IF S = {} THEN 0 ELSE CHOOSE k \in S : \A j \in S : j <= k

\* Requests of the run issued since the counter was last reset.
SinceReset ==
  IF LastSlept = 0 THEN Len(requests) ELSE Len(requests) - LastSlept + 1

\* C1: in every run of the five methods the counter is never above 20
\* when a request is issued; when it has reached 20 the run sleeps 60 and
\* resets it to 0 before the next request, so any 21 consecutive requests
\* of a run have a cooldown between them.
C1_RateLimitHolds ==
  /\ \A k \in 1..Len(requests) :
       /\ requests[k].count <= Threshold
       /\ requests[k].slept =>
            /\ requests[k].count = 0
            /\ requests[k].sleep = Cooldown
            /\ k > 1 /\ requests[k - 1].count + 1 = Threshold
       /\ (k > 1 /\ requests[k - 1].count + 1 = Threshold) =>
            requests[k].slept
  /\ \A i \in 1..(Len(requests) - Threshold) :
       \E k \in (i + 1)..(i + Threshold) : requests[k].slept
  /\ counter <= Threshold

C1_Witness ==
  /\ op = "bulk_find_phish"
  /\ Len(requests) = 2 * Threshold + 1
  /\ requests[2 * Threshold + 1].slept

\* C2: the count is one piece of state of the session, so across a search
\* followed by a remediation no more than 20 requests are issued without
\* a cooldown between them.
C2_SessionLimit ==
  op \in {"find_phish", "pull_email", "purge_email"} => sessSince <= Threshold

\* C3 as stated: 20 calls in a row from a fresh counter trigger exactly
\* one cooldown, on the 20th call, and the 21st call starts from count 1.
C3_PauseOnTwentieth ==
  /\ Len(requests) >= Threshold =>
       /\ requests[Threshold].slept
       /\ \A k \in 1..(Threshold - 1) : ~requests[k].slept
  /\ Len(requests) > Threshold =>
       /\ ~requests[Threshold + 1].slept
       /\ requests[Threshold + 1].count = 1

\* C3 amended: 20 calls in a row from a fresh counter trigger no cooldown;
\* the one cooldown comes on the 21st call, which is issued at count 0, and
\* the count is 1 once that call has been counted.
C3_PauseOnTwentyFirst ==
  /\ \A k \in 1..Len(requests) : k <= Threshold => ~requests[k].slept
  /\ Len(requests) > Threshold =>
       /\ requests[Threshold + 1].slept
       /\ requests[Threshold + 1].count = 0
  /\ (Len(requests) = Threshold + 1 /\ pc \in {"loop", "done"}) => counter = 1

C3_Witness ==
  /\ op = "find_phish" /\ pc = "loop"
  /\ Len(requests) = Threshold + 1
  /\ counter = 1

\* C4: in find_phish, pull_email and purge_email every request, accepted
\* or failed, adds exactly 1 to the counter: the counter equals the number
\* of requests issued since the last reset.
C4_EveryRequestCounted ==
  op \in {"find_phish", "pull_email", "purge_email"} => counter = SinceReset

ValidCombos ==
  {{"url"}, {"file_hash"}, {"sender", "subject", "file_ext"},
   {"sender", "subject"}, {"sender", "file_ext"}, {"sender"}, {"subject"}}

\* The query parameter that carries keyword k.
ParamName(k) ==
  CASE k = "file_hash" -> "file_sha1"
    [] k = "file_ext" -> "file_extension"
    [] OTHER -> k

SearchKeys == {ParamName(k) : k \in Fields}

\* C5: for each of the seven valid combinations every search request of
\* find_phish carries exactly the search fields of the combination.
C5_ExactFields ==
  (op = "find_phish" /\ DOMAIN phish_ \in ValidCombos) =>
     \A k \in 1..Len(requests) :
        (DOMAIN requests[k].payload) \cap SearchKeys
          = {ParamName(f) : f \in DOMAIN phish_}

\* C6: a criteria set outside the seven combinations is rejected by
\* find_phish as a caller error before any request is issued.
C6_InvalidRejected ==
  (op = "find_phish" /\ DOMAIN phish_ \notin ValidCombos) =>
     /\ requests = <<>>
     /\ pc # "done"

\* C7: a non-success answer to the search of one mailbox records nothing
\* for it and never aborts find_phish: the run goes on to query every
\* mailbox and returns exactly the matches of the successful searches.
C7_FailureSkipped ==
  op = "find_phish" =>
     /\ lastStatus \notin {0, 200} => pc # "raised"
     /\ pc = "done" =>
          /\ evil_list = okMatches
          /\ Len(requests) = Len(mailboxes)

CeilDiv(n, d) == (n + d - 1) \div d

\* C8 as stated: n matches are submitted in ceil(n/10) requests, every one
\* but possibly the last carrying exactly 10 records.
C8_BatchesOfTen ==
  (op \in OrcaMitigations /\ pc = "done") =>
     /\ Len(requests) = CeilDiv(Len(evil_list), 10)
     /\ \A k \in 1..(Len(requests) - 1) : Len(requests[k].payload) = 10

\* C8 amended: pull_email and purge_email issue exactly one request per
\* match, each carrying a JSON array of exactly one record: n matches give
\* n requests.
C8_OneRequestPerMatch ==
  op \in OrcaMitigations =>
     /\ \A k \in 1..Len(requests) :
          /\ requests[k].carrier = "json"
          /\ Len(requests[k].payload) = 1
     /\ pc = "loop" => Len(requests) = idx
     /\ pc = "done" => Len(requests) = Len(evil_list)

C8_Witness ==
  /\ op = "pull_email" /\ pc = "done"
  /\ Len(evil_list) > 10
  /\ Len(requests) = Len(evil_list)

\* C9: a remediation answer other than 201 never aborts pull_email or
\* purge_email and never raises: the submission is logged as failed and
\* the run goes on, so every match is submitted whatever the answers (the
\* only early end of a run is the KeyError of a record that lacks a key).
C9_RejectionNeverAborts ==
  op \in OrcaMitigations =>
     /\ exc # "HTTPError"
     /\ pc = "raised" =>
          (exc = "KeyError"
             /\ \E j \in 1..Len(evil_list) :
                  ~(RecordKeys \subseteq DOMAIN evil_list[j]))
     /\ n_exc = Len(requests) - nAccepted
     /\ (pc = "loop" /\ lastStatus \notin {0, Created}) => idx = Len(requests)
     /\ pc = "done" => idx = Len(evil_list) /\ Len(requests) = Len(evil_list)

C9_Witness ==
  /\ op = "purge_email" /\ pc = "done"
  /\ n_exc >= 2 /\ nAccepted >= 1
  /\ lastStatus = Created

\* C10 as stated: remediation returns a result with attempted = number of
\* input matches, succeeded = records of accepted submissions, failed = the
\* records of rejected submissions, and succeeded + len(failed) = attempted.
C10_ReturnsResult ==
  (op \in OrcaMitigations /\ pc = "done") =>
     /\ {"attempted", "succeeded", "failed"} \subseteq DOMAIN ret
     /\ ret.attempted = Len(evil_list)
     /\ ret.succeeded = nAccepted
     /\ ret.succeeded + Len(ret.failed) = ret.attempted

\* C10 amended: pull_email and purge_email return None; the outcome is
\* only logged, one info line per accepted and one exception line per
\* rejected submission, and when the run ends the two counts add up to the
\* number of input matches.
C10_OutcomeOnlyLogged ==
  op \in OrcaMitigations =>
     /\ n_info = nAccepted
     /\ n_exc = Len(requests) - nAccepted
     /\ pc = "done" =>
          /\ ret = ReturnValue("None")
          /\ n_info + n_exc = Len(evil_list)

C10_Witness ==
  /\ op = "pull_email" /\ pc = "done"
  /\ n_info > 0 /\ n_exc > 0
  /\ ret = ReturnValue("None")

\* A request of the run that asks for a remediation.
HasMitigationRequest ==
  \E k \in 1..Len(requests) : requests[k].method = "POST"

\* C11: in every run of the client no remediation request is issued before
\* the operator has answered the prompt with y or Y, and on any other
\* answer the run ends without a remediation request; the prompt is the
\* client's, the methods of Orca ask nothing.
C11_ConfirmedBeforeRemediation ==
  /\ cli # "none" =>
       /\ (HasMitigationRequest \/ op \in Mitigations) =>
            (answer \in {"y", "Y"} /\ cli = "remediate")
       /\ answer \notin {"none", "y", "Y"} =>
            (cli = "aborted" /\ op = "find_phish" /\ pc = "done")
       /\ cli = "search" => answer = "none"
  /\ cli = "none" => answer = "none"

C11_Witness ==
  /\ cli = "remediate" /\ answer = "Y"
  /\ op = "pull_email" /\ pc = "done"
  /\ Len(requests) >= 2

\* A record that lacks one of its four fields or has an empty one.
Malformed(r) ==
  \/ ~(RecordKeys \subseteq DOMAIN r)
  \/ \E k \in {"mmi", "mui", "d_time"} \cap DOMAIN r : r[k] = <<>>

\* C12: a match record that lacks a field or has an empty one is rejected
\* and never sent, and the rejection happens before any request of the
\* remediation run is issued.
C12_MalformedRejected ==
  (op \in OrcaMitigations
     /\ \E j \in 1..Len(evil_list) : Malformed(evil_list[j])) =>
       /\ requests = <<>>
       /\ pc # "done"

\* The four fields of a record equal those of a search response entry.
SameFields(rec, entry) ==
  /\ rec.mailbox = entry.mailbox
  /\ rec.mmi = entry.mail_message_id
  /\ rec.mui = entry.mail_unique_id
  /\ rec.d_time = entry.mail_message_delivery_time

\* C13: in a pull_email or purge_email run over the result of find_phish,
\* the k-th request carries the delivery time, mailbox, message id and
\* unique id of the k-th entry the service returned to the search, each
\* one unchanged.
C13_FieldsCarriedUnchanged ==
  (op \in OrcaMitigations /\ source = "search") =>
    /\ Len(requests) <= Len(entries)
    /\ \A k \in 1..Len(requests) :
         LET body == requests[k].payload[1]
         IN /\ body.mail_message_delivery_time
                 = entries[k].mail_message_delivery_time
            /\ body.mailbox = entries[k].mailbox
            /\ body.mail_message_id = entries[k].mail_message_id
            /\ body.mail_unique_id = entries[k].mail_unique_id

C13_Witness ==
  /\ op = "purge_email" /\ source = "search" /\ pc = "done"
  /\ Len(requests) = Len(entries)
  /\ \E k, l \in 1..Len(entries) : entries[k].mailbox # entries[l].mailbox

\* C14: the list find_phish builds holds one record for every entry the
\* service returned, with that entry's fields, in the order of the
\* mailboxes and, within a mailbox, in the order of its response.
C14_AllEntriesInOrder ==
  op = "find_phish" =>
    /\ Len(evil_list) = Len(entries)
    /\ \A k \in 1..Len(evil_list) : SameFields(evil_list[k], entries[k])
    /\ \A k, l \in 1..Len(evil_list) :
         k < l =>
           \/ evil_list[k].mailbox < evil_list[l].mailbox
           \/ /\ evil_list[k].mailbox = evil_list[l].mailbox
              /\ evil_list[k].mmi[2] < evil_list[l].mmi[2]
    /\ pc = "done" => ret = ReturnValue("list")

C14_Witness ==
  /\ op = "find_phish" /\ pc = "done"
  /\ Len(evil_list) = MaxHits + 1
  /\ evil_list[1].mailbox # evil_list[Len(evil_list)].mailbox

\* C15: the requests of a pull_email or purge_email run carry the records
\* of the input list in the order of the list, one after the other from
\* the first on: none is reordered, skipped or sent twice, and a run that
\* completes has sent them all.
C15_InputOrder ==
  op \in OrcaMitigations =>
    /\ Len(requests) = idx
    /\ idx <= Len(evil_list)
    /\ \A k \in 1..Len(requests) :
         /\ Len(requests[k].payload) = 1
         /\ LET body == requests[k].payload[1]
            IN /\ body.mailbox = evil_list[k].mailbox
               /\ body.mail_message_id = evil_list[k].mmi
               /\ body.mail_unique_id = evil_list[k].mui
               /\ body.mail_message_delivery_time = evil_list[k].d_time
    /\ pc = "done" => Len(requests) = Len(evil_list)

C15_Witness ==
  /\ op = "pull_email" /\ pc = "done" /\ source = "hand"
  /\ Len(requests) = 3 /\ n_exc = 1
  /\ requests[1].payload[1].mail_message_id
       # requests[3].payload[1].mail_message_id

\* C16 as stated: once ten records have been submitted, the run pauses 30
\* time units before the next submission, on top of any cooldown.
C16_PauseAfterTen ==
  op \in OrcaMitigations =>
    \A k \in 1..Len(requests) :
      (k > 1 /\ (k - 1) % 10 = 0) =>
        requests[k].sleep = 30 + (IF requests[k].slept THEN Cooldown ELSE 0)

\* C16: a remediation run never pauses 30 time units: it sleeps only
\* before a request that finds the count at the threshold, for the
\* cooldown of 60, which in a run is before the 21st request and every
\* 20th after it; the 11th request follows the 10th without a pause.
C16_OnlyCooldownPauses ==
  op \in Mitigations =>
    \A k \in 1..Len(requests) :
      requests[k].sleep
        = IF k > 1 /\ (k - 1) % Threshold = 0 THEN Cooldown ELSE 0

C16_Witness ==
  /\ op = "purge_email" /\ pc = "done"
  /\ Len(requests) = Threshold + 1
  /\ requests[11].sleep = 0
  /\ requests[Threshold + 1].sleep = Cooldown

\* The search requests of the run.
SearchRequests == {k \in 1..Len(requests) : requests[k].method = "GET"}

\* C17 as stated: a file hash search asks for the last 7 days, every
\* other search for the last day.
C17_WeekForFileHash ==
  \A k \in SearchRequests :
    requests[k].payload.lastndays
      = IF "file_sha1" \in DOMAIN requests[k].payload THEN 7 ELSE 1

\* C17: every search request of find_phish and of bulk_find_phish asks
\* for the last day, lastndays = 1, whatever its criteria, the file hash
\* search included.
C17_OneDayLookback ==
  \A k \in SearchRequests : requests[k].payload.lastndays = 1

C17_Witness ==
  /\ op = "find_phish" /\ pc = "done"
  /\ Len(requests) = 2
  /\ \A k \in 1..2 :
       /\ "file_sha1" \in DOMAIN requests[k].payload
       /\ requests[k].payload.lastndays = 1

\* C18: every search request of find_phish carries limit = 1000.
C18_LimitOnEverySearch ==
  op = "find_phish" =>
    \A k \in SearchRequests :
      /\ "limit" \in DOMAIN requests[k].payload
      /\ requests[k].payload.limit = 1000

\* The records a remediation request carries.
RecordsOf(r) ==
  IF r.carrier = "json"
    THEN {r.payload[j] : j \in 1..Len(r.payload)}
    ELSE {r.payload}

\* The tag of each remediation method.
ActionTag(name) ==
  IF name = "pull_email" THEN "MAIL_QUARANTINE" ELSE "MAIL_DELETE"

\* C19: every record of every request of a remediation run carries the
\* tag of the method, MAIL_QUARANTINE for pull_email and MAIL_DELETE for
\* purge_email and bulk_eat_phish, and service "exchange" and
\* account_provider "office365".
C19_TagAndMetadata ==
  op \in Mitigations =>
    \A k \in 1..Len(requests) :
      \A b \in RecordsOf(requests[k]) :
        /\ b.action_type = ActionTag(op)
        /\ b.service = "exchange"
        /\ b.account_provider = "office365"

C19_Witness ==
  /\ op = "pull_email" /\ pc = "done" /\ source = "search"
  /\ Len(requests) = MaxHits
  /\ \A k \in 1..Len(requests) :
       requests[k].payload[1].action_type = "MAIL_QUARANTINE"

\* C20: nothing is sent twice within a run: find_phish sends at most one
\* request per mailbox, bulk_find_phish at most one per URL and mailbox,
\* and a remediation run at most one request per record of its list,
\* rejected requests included.
C20_NoRetries ==
  /\ op = "find_phish" =>
       /\ Len(requests) <= Len(mailboxes)
       /\ Cardinality({requests[k].payload.mailbox : k \in 1..Len(requests)})
            = Len(requests)
  /\ op = "bulk_find_phish" =>
       /\ Len(requests) <= Len(url_list) * Len(mailboxes)
       /\ Cardinality({<<requests[k].payload.url,
                          requests[k].payload.mailbox>> :
                            k \in 1..Len(requests)})
            = Len(requests)
  /\ op \in Mitigations => Len(requests) <= Len(evil_list)
  /\ op \in OrcaMitigations =>
       Cardinality({requests[k].payload[1].mail_message_id :
                      k \in 1..Len(requests)})
         = Len(requests)

C20_Witness ==
  /\ op = "pull_email" /\ pc = "done"
  /\ Len(evil_list) = 2 /\ Len(requests) = 2
  /\ n_exc = 2

\* C21: a find_phish run with a mailbox list and a valid combination of
\* criteria, and a pull_email or purge_email run over well-formed records,
\* never ends by an exception whatever the service answers: while it has
\* input left it can take its next step, and it returns after one request
\* for every mailbox, respectively every record.
C21_RunsToCompletion ==
  /\ (op = "find_phish" /\ has_mailboxes /\ DOMAIN phish_ \in ValidCombos
        /\ ~IsUnbound(find_params(phish_, 1))) =>
       /\ pc # "raised"
       /\ pc = "loop" => idx <= Len(mailboxes)
       /\ pc = "done" => Len(requests) = Len(mailboxes)
  /\ (op \in OrcaMitigations
        /\ \A j \in 1..Len(evil_list) : ~Malformed(evil_list[j])) =>
       /\ pc # "raised"
       /\ pc = "loop" => idx <= Len(evil_list)
       /\ pc = "done" => Len(requests) = Len(evil_list)

\* C22 as stated: every submission is followed by exactly one outcome, and
\* the result the run returns aggregates both: the accepted submissions
\* and the rejected ones.
C22_OutcomesAggregated ==
  op \in OrcaMitigations =>
    /\ n_info + n_exc = Len(requests)
    /\ pc = "done" =>
         /\ {"succeeded", "failed"} \subseteq DOMAIN ret
         /\ ret.succeeded = n_info
         /\ Len(ret.failed) = n_exc

\* One step of a remediation loop that submits the next record and logs
\* exactly one outcome for it.
SubmitStep ==
  /\ idx < Len(evil_list)
  /\ Len(requests') = Len(requests) + 1
  /\ Len(requests'[Len(requests')].payload) = 1
  /\ idx' = idx + 1
  /\ pc' = "loop" /\ ret' = ret
  /\ \/ /\ lastStatus' = Created
        /\ n_info' = n_info + 1 /\ n_exc' = n_exc
     \/ /\ lastStatus' # Created
        /\ n_exc' = n_exc + 1 /\ n_info' = n_info

\* C22: every step of a pull_email or purge_email loop is one of: the
\* next record is submitted in one request of its own and exactly one
\* outcome is logged for it, accepted (201) or rejected, after which the
\* loop is back at its head; or the input is exhausted and the method
\* returns None, no outcome being aggregated into a result; or a record
\* without one of its keys ends the run before its request.
C22_SubmitThenOneOutcome ==
  [][(op \in OrcaMitigations /\ op' = op /\ pc = "loop") =>
       \/ SubmitStep
       \/ /\ idx = Len(evil_list)
          /\ pc' = "done" /\ ret' = ReturnValue("None")
          /\ requests' = requests /\ n_info' = n_info /\ n_exc' = n_exc
       \/ /\ idx < Len(evil_list)
          /\ ~(RecordKeys \subseteq DOMAIN evil_list[idx + 1])
          /\ pc' = "raised"
          /\ requests' = requests /\ n_info' = n_info /\ n_exc' = n_exc]_vars

C22_Witness ==
  /\ op = "purge_email" /\ pc = "done"
  /\ n_info = 2 /\ n_exc = 2
  /\ ret = ReturnValue("None")

\* C23 as stated: a remediation of no records issues no request, takes no
\* pause and returns a result with attempted = 0, succeeded = 0 and an
\* empty failed list.
C23_EmptyResult ==
  (op \in OrcaMitigations /\ evil_list = <<>> /\ pc = "done") =>
    /\ requests = <<>>
    /\ pauses = 0
    /\ ret = [attempted |-> 0, succeeded |-> 0, failed |-> <<>>]

\* C23: a remediation of no records issues no request, takes no pause,
\* logs no outcome, raises nothing and returns None.
C23_EmptyNoRequest ==
  (op \in Mitigations /\ evil_list = <<>>) =>
    /\ requests = <<>>
    /\ pauses = 0
    /\ n_info = 0 /\ n_exc = 0
    /\ pc \in {"loop", "done"}
    /\ pc = "done" => ret = ReturnValue("None")

C23_Witness ==
  /\ op = "pull_email" /\ source = "hand" /\ evil_list = <<>>
  /\ pc = "done" /\ requests = <<>> /\ pauses = 0

\* C24: when no answer to a find_phish run carried a match, because the
\* value array of every answer was empty or because the mailbox list is
\* empty, the list is empty and the run returns it: an empty answer never
\* raises; the run ends by an exception only for a session without
\* mailbox list, for criteria no branch accepts, or for an answer whose
\* body has no "value".
C24_EmptyWhenNoMatch ==
  op = "find_phish" =>
    /\ entries = <<>> => evil_list = <<>>
    /\ pc = "done" => (ret = ReturnValue("list") /\ exc = "none")
    /\ (has_mailboxes /\ mailboxes = <<>>) =>
         (pc \in {"loop", "done"} /\ requests = <<>>)
    /\ pc = "raised" =>
         \/ exc = "AttributeError" /\ ~has_mailboxes
         \/ exc = "UnboundLocalError" /\ IsUnbound(find_params(phish_, 1))
         \/ exc = "KeyError" /\ lastStatus = 500

C24_Witness ==
  /\ op = "find_phish" /\ pc = "done"
  /\ Len(requests) = 2 /\ lastStatus = 200
  /\ entries = <<>> /\ evil_list = <<>>
  /\ ret = ReturnValue("list")

C26_InputReadOnly ==
  [][(op \in Mitigations /\ op' = op) => evil_list' = evil_list]_vars

C26_Witness ==
  /\ op = "bulk_eat_phish" /\ pc = "done"
  /\ Len(evil_list) = 2 /\ Len(requests) = 2
  /\ n_exc = 1 /\ n_info = 1

\* C27: when sender, subject and file_ext are the keywords of find_phish,
\* every request of the run carries sender, subject and file_extension.
C27_ThreeFieldShape ==
  (op = "find_phish" /\ DOMAIN phish_ = {"sender", "subject", "file_ext"}) =>
    \A k \in 1..Len(requests) :
      {"sender", "subject", "file_extension"}
        \subseteq DOMAIN requests[k].payload

\* C28: a find_phish, pull_email or purge_email run that has issued N >= 1
\* requests has paused floor((N - 1) / 20) times, and every pause was
\* followed by a request: the pauses are those that precede a request.
C28_PausesPerRun ==
  (op \in {"find_phish", "pull_email", "purge_email"}
     /\ Len(requests) >= 1) =>
    /\ pauses = (Len(requests) - 1) \div Threshold
    /\ pauses = Cardinality({k \in 1..Len(requests) : requests[k].slept})

\* C29: the k-th request of a bulk_find_phish run searches the url and the
\* mailbox that come k-th when the urls are walked in the outer and the
\* mailboxes in the inner loop, a run that returns has issued one request
\* for every pair, and the counter runs on across the urls: the k-th
\* request is issued at count (k - 1) mod 20, after a cooldown exactly
\* when k - 1 is a positive multiple of 20.
C29_OneRequestPerPair ==
  op = "bulk_find_phish" =>
    /\ \A k \in 1..Len(requests) :
         /\ requests[k].payload.url
              = url_list[((k - 1) \div Len(mailboxes)) + 1]
         /\ requests[k].payload.mailbox
              = mailboxes[((k - 1) % Len(mailboxes)) + 1]
         /\ requests[k].count = (k - 1) % Threshold
         /\ requests[k].slept = (k > 1 /\ (k - 1) % Threshold = 0)
    /\ pc = "done" => Len(requests) = Len(url_list) * Len(mailboxes)

C29_Witness ==
  /\ op = "bulk_find_phish" /\ pc = "done"
  /\ Len(url_list) = 2 /\ Len(mailboxes) = Threshold + 1
  /\ Len(requests) = 2 * (Threshold + 1)
  /\ requests[2 * Threshold + 1].slept

\* C30: bulk_find_phish records at most one match per search, the first
\* entry of the answer under the mailbox of the search, so its list is no
\* longer than the number of searches and of (url, mailbox) pairs; and an
\* answer with an empty value array adds nothing and does not stop the
\* sweep.
C30_FirstEntryOnly ==
  op = "bulk_find_phish" =>
    /\ Len(evil_list) <= Len(requests)
    /\ Len(evil_list) <= Len(url_list) * Len(mailboxes)
    /\ \A k \in 1..Len(evil_list) :
         /\ evil_list[k].mmi[2] = 1
         /\ \E q \in 1..Len(requests) :
              requests[q].payload.mailbox = evil_list[k].mailbox
    /\ exc # "IndexError"

\* C31: in every run of the client, for every combination of arguments
\* and every answer at the prompt, the only remediation method reached is
\* pull_email: purge_email is never called and no request of the run
\* carries a record tagged MAIL_DELETE.
C31_ClientNeverDeletes ==
  cli # "none" =>
    /\ op \in {"none", "find_phish", "pull_email"}
    /\ \A k \in 1..Len(requests) :
         requests[k].method = "POST" =>
           \A b \in RecordsOf(requests[k]) :
             /\ b.action_type # "MAIL_DELETE"
             /\ b.action_type = "MAIL_QUARANTINE"

C31_Witness ==
  /\ cli = "remediate" /\ answer = "y"
  /\ op = "pull_email" /\ pc = "done"
  /\ Len(requests) = MaxHits + 1
  /\ \A k \in 1..Len(requests) :
       requests[k].payload[1].action_type = "MAIL_QUARANTINE"

====
